---- MODULE Spec2Model ----
(***************************************************************************)
(* Model of check-compat.ts: a bounded pool of async workers that scans   *)
(* the version history of every dependency of a project against the npm   *)
(* registry and emits one result row per dependency.                       *)
(*                                                                         *)
(* Execution model: Node.js runs one callback to completion at a time.    *)
(* The only suspension points of the program are the awaits on execJson / *)
(* execRaw (registry calls), so one action of this model is everything    *)
(* the program does from the completion of one registry call up to the    *)
(* issue of the next one by the same worker.                               *)
(***************************************************************************)
EXTENDS Integers, Sequences, FiniteSets, TLC

VARIABLES
    cfg,                \* parsed command line: jobs, fastLimit, exhaustive, ...
    depEntries,         \* the dependency entries read from package.json
    registry,           \* what the npm registry answers, per package name
    runPc,              \* position of run(): "init", "spawning", "awaiting", "done"
    queue,              \* run(): const queue (entries are held by identity = index)
    workerCount,
    displayInitialized,
    workerStatuses,
    results,
    finished,
    versionQueries,
    wk,                 \* per worker: position and locals of processPackage
    taken,              \* log of queue.shift() calls: <<workerId, entry>>
    probes,             \* log of execRaw peerDependencies calls, per entry
    appended,           \* log of results.push calls: the entry of each row
    rowLocals,          \* log of results.push calls: processPackage's locals then
    output              \* sortedResults as printed by run()

vars == <<cfg, depEntries, registry, runPc, queue, workerCount, displayInitialized,
          workerStatuses, results, finished, versionQueries, wk, taken, probes, appended,
          rowLocals, output>>

-----------------------------------------------------------------------------
(* Bounds of the model *)

MaxEntries == 2     \* longest dependency list of the pool specification
MaxJobs == 2        \* largest --jobs value
MaxFast == 2        \* largest --fast limit

-----------------------------------------------------------------------------
(* Version strings.  A version string is a record: op is a leading range   *)
(* operator (only package.json ranges carry one), tag tells a release from *)
(* a prerelease from a string semver cannot parse.                         *)

Ver(maj, min, pat) == [op |-> "", maj |-> maj, min |-> min, pat |-> pat, tag |-> "rel"]

PreVer(maj, min, pat) == [op |-> "", maj |-> maj, min |-> min, pat |-> pat, tag |-> "pre"]

BadVer == [op |-> "", maj |-> 0, min |-> 0, pat |-> 0, tag |-> "bad"]

\* JavaScript undefined, where a version string is expected
Undefined == [op |-> "", maj |-> 0, min |-> 0, pat |-> 0, tag |-> "undefined"]

Range(op, v) == [v EXCEPT !.op = op]

\* semver.valid / semver.parse succeed
SemverValid(v) == v.op = "" /\ v.tag \in {"rel", "pre"}

SemverPrerelease(v) == v.tag = "pre"

SemverGt(a, b) ==
    \/ a.maj > b.maj
    \/ a.maj = b.maj /\ a.min > b.min
    \/ a.maj = b.maj /\ a.min = b.min /\ a.pat > b.pat
    \/ a.maj = b.maj /\ a.min = b.min /\ a.pat = b.pat /\ a.tag = "rel" /\ b.tag = "pre"

SemverEq(a, b) == ~SemverGt(a, b) /\ ~SemverGt(b, a)

\* semver.compare, the ascending order, in the place of semver.rcompare
CompareBefore(a, b) == SemverGt(b, a)

\* semver.rcompare(a, b) < 0: a sorts before b
RCompareBefore(a, b) == SemverGt(a, b)

stripRange(v) == IF v.op \in {"^", "~"} THEN [v EXCEPT !.op = ""] ELSE v

\* TLC hands an operator its arguments unevaluated and evaluates them again at
\* every use; Once(v, Op) evaluates v a single time and applies Op to the value.
Once(v, Op(_)) == CHOOSE r \in {Op(x) : x \in {v}} : TRUE

\* Array.prototype.filter
RECURSIVE FilterSeq(_, _)
FilterSeq(s, keep) ==
    IF s = <<>> THEN <<>>
    ELSE IF Head(s) \in keep THEN <<Head(s)>> \o FilterSeq(Tail(s), keep)
         ELSE FilterSeq(Tail(s), keep)

SeqElems(s) == {s[i] : i \in 1..Len(s)}

\* Array.prototype.includes
Includes(s, x) == \E i \in 1..Len(s) : s[i] = x

\* Array.prototype.slice(from, to) with 0-based from, exclusive to
Slice(s, from, to) ==
    LET hi == IF to < Len(s) THEN to ELSE Len(s)
    IN  IF from >= hi THEN <<>> ELSE SubSeq(s, from + 1, hi)

\* Array.prototype.sort is stable: insert x after every element that does not
\* sort strictly after it
RECURSIVE InsertDesc(_, _)
InsertDesc(s, x) ==
    IF s = <<>> THEN <<x>>
    ELSE IF RCompareBefore(x, Head(s)) THEN <<x>> \o s
         ELSE <<Head(s)>> \o InsertDesc(Tail(s), x)

RECURSIVE SortDesc(_)
SortDesc(s) ==
    IF s = <<>> THEN <<>>
    ELSE Once(SortDesc(SubSeq(s, 1, Len(s) - 1)), LAMBDA t : InsertDesc(t, s[Len(s)]))

-----------------------------------------------------------------------------
(* Package names.  TLC strings are atoms, so the string tests the program  *)
(* makes on a name (startsWith, a table lookup, localeCompare) are tables  *)
(* over the names the model uses.                                          *)

PackageNames == {"rxjs", "ngx-lib", "@types/lodash", "acme-kit"}

\* angularCompatiblePackages.some(pkg => name.startsWith(pkg))
IsKnownCompatible(name) == name \in {"rxjs"}

\* name.startsWith('@types/')
IsTypesPackage(name) == name \in {"@types/lodash"}

\* MIGRATION_LINKS[name]; "undefined" when the table has no such key
MigrationLinks(name) ==
    IF name = "rxjs" THEN "https://rxjs.dev/deprecations" ELSE "undefined"

\* a.localeCompare(b) < 0: punctuation collates before letters
CollationRank(name) ==
    CASE name = "@types/lodash" -> 1
      [] name = "acme-kit" -> 2
      [] name = "ngx-lib" -> 3
      [] name = "rxjs" -> 4

LocaleCompareBefore(a, b) == CollationRank(a) < CollationRank(b)

resolveMigrationLink(name, meta) ==
    IF MigrationLinks(name) # "undefined" THEN MigrationLinks(name)
    ELSE meta.homepage

-----------------------------------------------------------------------------
(* Registry answers *)

\* answer of `npm view name@v peerDependencies`: no @angular/core key, a failed
\* or unparsable call, or a range lo.x - hi.x on @angular/core
NoPeer == [k |-> "none", lo |-> 0, hi |-> 0]

PeerQueryFailed == [k |-> "fail", lo |-> 0, hi |-> 0]

PeerRange(lo, hi) == [k |-> "range", lo |-> lo, hi |-> hi]

\* const peer = peerDeps['@angular/core'] || peerDeps.angular; if (peer) ...
HasPeer(p) == p.k = "range"

satisfiesAngular(range, major) == range.lo <= major /\ major <= range.hi

\* answer of `npm view name keywords description`
HeurFailed == [k |-> "fail", angular |-> FALSE, utility |-> FALSE]

HeurInfo(angular, utility) == [k |-> "ok", angular |-> angular, utility |-> utility]

MetaFailed ==
    [meta |-> "fail", version |-> Undefined, isArray |-> TRUE, versions |-> <<>>,
     peer |-> <<>>, heur |-> HeurFailed, homepage |-> ""]

\* the newest parsable element of a version list: the usual `latest` dist-tag
NewestOf(vl) ==
    LET ok == FilterSeq(vl, {v \in SeqElems(vl) : SemverValid(v)})
        rel == FilterSeq(ok, {v \in SeqElems(ok) : ~SemverPrerelease(v)})
    IN  IF rel # <<>> THEN SortDesc(rel)[1]
        ELSE IF ok # <<>> THEN SortDesc(ok)[1] ELSE Undefined

\* all sequences of distinct elements of set S
RECURSIVE Arrangements(_)
Arrangements(S) ==
    IF S = {} THEN {<<>>}
    ELSE {<<>>} \cup UNION {{<<x>> \o t : t \in Arrangements(S \ {x})} : x \in S}

\* every answer the registry can give for one package, within the given
\* version lists, peer answers and keyword answers
Responses(versionLists, peerAnswers, heurAnswers) ==
    {MetaFailed} \cup
    UNION {{[meta |-> "ok", version |-> NewestOf(vl), isArray |-> TRUE, versions |-> vl,
             peer |-> p, heur |-> h, homepage |-> ""] :
                p \in [{v \in SeqElems(vl) : SemverValid(v) /\ ~SemverPrerelease(v)}
                          -> peerAnswers],
                h \in heurAnswers} :
           vl \in versionLists}

-----------------------------------------------------------------------------
(* Display values of a result row *)

Display(k, v) == [k |-> k, v |-> v]

Distance(k, n) == [k |-> k, n |-> n]

Note(k, reason) == [k |-> k, reason |-> reason]

Status(k, name, v) == [k |-> k, name |-> name, v |-> v]

-----------------------------------------------------------------------------
(* processPackage: the locals of one call, and what the call does between  *)
(* two registry calls.  pc names the registry call the worker is awaiting: *)
(* "meta", "scan" (first loop), "ext" (second loop), "heur"; "final" is    *)
(* the point where the row is built; "done" is a worker that has returned. *)

NoLocals ==
    [pc |-> "unstarted", entry |-> 0, latest |-> Undefined, versions |-> <<>>,
     versionsToCheck |-> <<>>, remainingVersions |-> <<>>, loopIdx |-> 0,
     versionIndex |-> 0, compatVersions |-> <<>>, hasAngularPeerDep |-> FALSE,
     currentVersionFound |-> FALSE, peerAngular |-> NoPeer,
     compatInfo |-> [isCompatible |-> TRUE, reason |-> ""]]

\* the version whose peerDependencies call the worker is awaiting
ProbedVersion(s) ==
    IF s.pc = "scan" THEN s.versionsToCheck[s.loopIdx]
    ELSE IF s.pc = "ext" THEN s.remainingVersions[s.loopIdx]
    ELSE Undefined

\* lines 325-332: the version list of the metadata, filtered and sorted
SortedVersions(c, meta) ==
    LET raw == IF meta.isArray THEN meta.versions ELSE <<meta.version>>
        valid == FilterSeq(raw, {v \in SeqElems(raw) : SemverValid(v)})
        kept == IF ~c.includePrerelease
                THEN FilterSeq(valid, {v \in SeqElems(valid) : ~SemverPrerelease(v)})
                ELSE valid
    IN  Once(kept, LAMBDA k : SortDesc(k))

\* EarlyExit with the length test off by one
EarlyExitLate(c, s) ==
    ~c.exhaustive /\ ~s.hasAngularPeerDep /\ Len(s.compatVersions) > 1

\* EarlyExit without the test for a formal peer requirement
EarlyExitAnyCompatible(c, s) ==
    ~c.exhaustive /\ Len(s.compatVersions) > 0

\* lines 380-382: the early exit of the first loop
EarlyExit(c, s) ==
    ~c.exhaustive /\ ~s.hasAngularPeerDep /\ Len(s.compatVersions) > 0

\* NeedsExtension that treats the extension as part of the non-exhaustive mode
NeedsExtensionUnlessExhaustive(c, s) ==
    /\ ~c.exhaustive
    /\ s.hasAngularPeerDep
    /\ ~s.currentVersionFound
    /\ c.fastLimit > 0
    /\ s.versionIndex < Len(s.versions)

\* NeedsExtension without the test for a formal peer requirement
NeedsExtensionWithoutPeer(c, s) ==
    /\ ~s.currentVersionFound
    /\ c.fastLimit > 0
    /\ s.versionIndex < Len(s.versions)

\* line 386: whether the scan goes on beyond the fast limit
NeedsExtension(c, s) ==
    /\ s.hasAngularPeerDep
    /\ ~s.currentVersionFound
    /\ c.fastLimit > 0
    /\ s.versionIndex < Len(s.versions)

\* RemainingVersions that starts over from the newest version
RemainingVersionsRestart(s) == s.versions

\* line 390
RemainingVersions(s) == Slice(s.versions, s.versionIndex, Len(s.versions))

\* lines 506-510, and 252-267 of checkAngularCompatibility: after the scan the
\* call either awaits the keyword query or goes on to build the row
AfterExtension(s, name) ==
    IF s.hasAngularPeerDep
    THEN [s EXCEPT !.pc = "final"]
    ELSE IF IsKnownCompatible(name)
         THEN [s EXCEPT !.pc = "final",
                        !.compatInfo = [isCompatible |-> TRUE,
                                        reason |-> "Known Angular-compatible package"]]
         ELSE [s EXCEPT !.pc = "heur"]

\* lines 385-392: after the first loop
AfterScanLoop(c, s, name) ==
    IF NeedsExtension(c, s)
    THEN [s EXCEPT !.pc = "ext", !.remainingVersions = RemainingVersions(s), !.loopIdx = 1]
    ELSE AfterExtension(s, name)

\* lines 324-353: the metadata has arrived
ScanLocals(c, s, e, meta, versions) ==
    LET currentClean == stripRange(e.current)
        versionsToCheck == IF c.fastLimit > 0 THEN Slice(versions, 0, c.fastLimit)
                           ELSE versions
    IN  [s EXCEPT !.latest = meta.version,
                  !.versions = versions,
                  !.versionsToCheck = versionsToCheck,
                  !.currentVersionFound =
                      (c.fastLimit > 0 /\ Includes(versionsToCheck, currentClean))]

AfterMeta(c, s, e, meta) ==
    Once(SortedVersions(c, meta), LAMBDA versions :
    Once(ScanLocals(c, s, e, meta, versions), LAMBDA s1 :
        IF s1.versionsToCheck = <<>> THEN AfterScanLoop(c, s1, e.name)
        ELSE [s1 EXCEPT !.pc = "scan", !.loopIdx = 1]))

\* lines 359-383: one pass of the first loop, from the answer of the peer query
ScanPass(c, s, e, answer) ==
    LET v == s.versionsToCheck[s.loopIdx]
        peer == HasPeer(answer)
    IN  [s EXCEPT
           !.hasAngularPeerDep = (s.hasAngularPeerDep \/ peer),
           !.peerAngular = IF peer /\ ~HasPeer(s.peerAngular) THEN answer
                           ELSE s.peerAngular,
           !.compatVersions =
               IF ~peer \/ satisfiesAngular(answer, c.angularMajor)
               THEN Append(s.compatVersions, v) ELSE s.compatVersions,
           !.currentVersionFound =
               (s.currentVersionFound \/ v = stripRange(e.current)),
           !.versionIndex = s.versionIndex + 1]

ScanBody(c, s, e, answer) ==
    Once(ScanPass(c, s, e, answer), LAMBDA s1 :
        IF EarlyExit(c, s1) \/ s.loopIdx = Len(s.versionsToCheck)
        THEN AfterScanLoop(c, s1, e.name)
        ELSE [s1 EXCEPT !.loopIdx = s.loopIdx + 1])

\* lines 398-415: one pass of the second loop
ExtPass(c, s, e, answer) ==
    LET v == s.remainingVersions[s.loopIdx]
        peer == HasPeer(answer)
    IN  [s EXCEPT
           !.peerAngular = IF peer /\ ~HasPeer(s.peerAngular) THEN answer
                           ELSE s.peerAngular,
           !.compatVersions =
               IF ~peer \/ satisfiesAngular(answer, c.angularMajor)
               THEN Append(s.compatVersions, v) ELSE s.compatVersions,
           !.currentVersionFound =
               (s.currentVersionFound \/ v = stripRange(e.current))]

\* ExtBody without the break at the current version (lines 411-414)
ExtBodyNoBreak(c, s, e, answer) ==
    Once(ExtPass(c, s, e, answer), LAMBDA s1 :
        IF s.loopIdx = Len(s.remainingVersions)
        THEN AfterExtension(s1, e.name)
        ELSE [s1 EXCEPT !.loopIdx = s.loopIdx + 1])

ExtBody(c, s, e, answer) ==
    Once(ExtPass(c, s, e, answer), LAMBDA s1 :
        IF s.remainingVersions[s.loopIdx] = stripRange(e.current)
              \/ s.loopIdx = Len(s.remainingVersions)
        THEN AfterExtension(s1, e.name)
        ELSE [s1 EXCEPT !.loopIdx = s.loopIdx + 1])

\* HeuristicVerdict that looks at the utility keywords before the Angular ones
HeuristicVerdictUtilityFirst(name, latest, versions, info) ==
    IF info.k = "fail"
    THEN [isCompatible |-> FALSE, reason |-> "Failed to check compatibility"]
    ELSE IF info.utility \/ IsTypesPackage(name)
    THEN [isCompatible |-> TRUE, reason |-> "Framework-agnostic utility package"]
    ELSE IF info.angular
    THEN IF SemverValid(latest) /\ Len(Slice(versions, 0, 5)) > 0
         THEN [isCompatible |-> TRUE,
               reason |-> "Angular-related package with recent updates"]
         ELSE [isCompatible |-> FALSE, reason |-> "Angular-related but may be outdated"]
    ELSE [isCompatible |-> TRUE,
          reason |-> "No explicit framework dependencies detected"]

\* lines 271-317 of checkAngularCompatibility: the keyword query has answered
HeuristicVerdict(name, latest, versions, info) ==
    IF info.k = "fail"
    THEN [isCompatible |-> FALSE, reason |-> "Failed to check compatibility"]
    ELSE IF info.angular
    THEN IF SemverValid(latest) /\ Len(Slice(versions, 0, 5)) > 0
         THEN [isCompatible |-> TRUE,
               reason |-> "Angular-related package with recent updates"]
         ELSE [isCompatible |-> FALSE, reason |-> "Angular-related but may be outdated"]
    ELSE IF info.utility \/ IsTypesPackage(name)
    THEN [isCompatible |-> TRUE, reason |-> "Framework-agnostic utility package"]
    ELSE [isCompatible |-> TRUE,
          reason |-> "No explicit framework dependencies detected"]

HeurBody(s, e, info) ==
    [s EXCEPT !.pc = "final",
              !.compatInfo = HeuristicVerdict(e.name, s.latest, s.versions, info)]

-----------------------------------------------------------------------------
(* processPackage, lines 418-590: the row of a package whose metadata      *)
(* arrived                                                                 *)

\* lines 419-425; Undefined when the variable stays unset
LatestCompat(s) ==
    IF Len(s.compatVersions) > 0 THEN s.compatVersions[1] ELSE Undefined

EarliestCompat(s) ==
    IF s.hasAngularPeerDep /\ Len(s.compatVersions) > 0
    THEN s.compatVersions[Len(s.compatVersions)]
    ELSE Undefined

\* a version string that is neither undefined nor empty
Truthy(v) == v.tag # "undefined"

\* BehindBy that looks at the minor numbers before the major numbers
BehindByMinorFirst(currentClean, baseline, upToDate, ahead, suffix, formatDiff) ==
    IF SemverValid(currentClean) /\ SemverValid(baseline)
    THEN IF SemverEq(currentClean, baseline) THEN Distance(upToDate, 0)
         ELSE IF SemverGt(currentClean, baseline) THEN Distance(ahead, 0)
         ELSE LET majorDiff == baseline.maj - currentClean.maj
                  minorDiff == baseline.min - currentClean.min
                  patchDiff == baseline.pat - currentClean.pat
              IN  IF minorDiff > 0 THEN Distance("minor " \o suffix, minorDiff)
                  ELSE IF majorDiff > 0 THEN Distance("major " \o suffix, majorDiff)
                  ELSE IF patchDiff > 0 THEN Distance("patch " \o suffix, patchDiff)
                  ELSE Distance(formatDiff, 0)
    ELSE Distance("Invalid version format", 0)

\* lines 434-459 and 472-497: how far current is behind the baseline
BehindBy(currentClean, baseline, upToDate, ahead, suffix, formatDiff) ==
    IF SemverValid(currentClean) /\ SemverValid(baseline)
    THEN IF SemverEq(currentClean, baseline) THEN Distance(upToDate, 0)
         ELSE IF SemverGt(currentClean, baseline) THEN Distance(ahead, 0)
         ELSE LET majorDiff == baseline.maj - currentClean.maj
                  minorDiff == baseline.min - currentClean.min
                  patchDiff == baseline.pat - currentClean.pat
              IN  IF majorDiff > 0 THEN Distance("major " \o suffix, majorDiff)
                  ELSE IF minorDiff > 0 THEN Distance("minor " \o suffix, minorDiff)
                  ELSE IF patchDiff > 0 THEN Distance("patch " \o suffix, patchDiff)
                  ELSE Distance(formatDiff, 0)
    ELSE Distance("Invalid version format", 0)

\* lines 427-504
VersionsBehind(s, e) ==
    LET currentClean == stripRange(e.current)
        latestCompat == LatestCompat(s)
    IN  IF s.hasAngularPeerDep
        THEN IF Truthy(latestCompat) /\ Truthy(currentClean)
             THEN BehindBy(currentClean, latestCompat,
                           "Up to date with latest compatible",
                           "Ahead of latest compatible",
                           "behind latest compatible",
                           "Behind latest compatible (version format difference)")
             ELSE IF ~Truthy(latestCompat)
                  THEN Distance("No compatible version found", 0)
                  ELSE Distance("Unknown", 0)
        ELSE IF Truthy(s.latest) /\ Truthy(currentClean)
             THEN BehindBy(currentClean, s.latest, "Up to date", "Ahead of latest",
                           "behind", "Behind (version format difference)")
             ELSE Distance("Unknown", 0)

\* PeerRecommendation whose optional upgrade names the registry's latest version
PeerRecommendationToLatest(s, e) ==
    LET currentClean == stripRange(e.current)
        latestCompat == LatestCompat(s)
        earliestCompat == EarliestCompat(s)
    IN  IF ~Truthy(latestCompat) THEN Display("n/a", Undefined)
        ELSE IF Includes(s.compatVersions, currentClean)
        THEN IF currentClean = latestCompat
             THEN Display("#3 Keep current version", Undefined)
             ELSE Display("#2 Optionally upgrade to", s.latest)
        ELSE IF Truthy(earliestCompat)
             THEN Display("#1 Must upgrade to", earliestCompat)
             ELSE Display("n/a", Undefined)

\* PeerRecommendation whose forced upgrade names the newest compatible version
PeerRecommendationMustLatestCompat(s, e) ==
    LET currentClean == stripRange(e.current)
        latestCompat == LatestCompat(s)
        earliestCompat == EarliestCompat(s)
    IN  IF ~Truthy(latestCompat) THEN Display("n/a", Undefined)
        ELSE IF Includes(s.compatVersions, currentClean)
        THEN IF currentClean = latestCompat
             THEN Display("#3 Keep current version", Undefined)
             ELSE Display("#2 Optionally upgrade to", latestCompat)
        ELSE IF Truthy(earliestCompat)
             THEN Display("#1 Must upgrade to", latestCompat)
             ELSE Display("n/a", Undefined)

\* lines 526-552: recommendation of a package with an Angular peer dependency
PeerRecommendation(s, e) ==
    LET currentClean == stripRange(e.current)
        latestCompat == LatestCompat(s)
        earliestCompat == EarliestCompat(s)
    IN  IF ~Truthy(latestCompat) THEN Display("n/a", Undefined)
        ELSE IF Includes(s.compatVersions, currentClean)
        THEN IF currentClean = latestCompat
             THEN Display("#3 Keep current version", Undefined)
             ELSE Display("#2 Optionally upgrade to", latestCompat)
        ELSE IF Truthy(earliestCompat)
             THEN Display("#1 Must upgrade to", earliestCompat)
             ELSE Display("n/a", Undefined)

PeerNote(s, e) ==
    LET currentClean == stripRange(e.current)
        latestCompat == LatestCompat(s)
    IN  IF ~Truthy(latestCompat)
        THEN Note("No compatible version found for Angular", "")
        ELSE IF Includes(s.compatVersions, currentClean)
        THEN Note("Current version is compatible", "")
        ELSE IF latestCompat = currentClean THEN Note("Up to date", "")
        ELSE IF latestCompat # s.latest /\ Truthy(s.latest)
        THEN Note("Newer latest likely needs different Angular peer or is prerelease", "")
        ELSE Note("Upgradable within Angular", "")

\* PlainRecommendation without the test for currentClean === latest
PlainRecommendationNoKeep(s, e) ==
    LET currentClean == stripRange(e.current)
    IN  IF s.compatInfo.isCompatible
        THEN Display("#2 Optionally upgrade to", s.latest)
        ELSE IF Truthy(s.latest) /\ currentClean # s.latest
             THEN Display("#1 Must upgrade to", s.latest)
             ELSE Display("n/a", Undefined)

\* lines 559-575: recommendation of a package without one
PlainRecommendation(s, e) ==
    LET currentClean == stripRange(e.current)
    IN  IF s.compatInfo.isCompatible
        THEN IF currentClean = s.latest
             THEN Display("#3 Keep current version", Undefined)
             ELSE Display("#2 Optionally upgrade to", s.latest)
        ELSE IF Truthy(s.latest) /\ currentClean # s.latest
             THEN Display("#1 Must upgrade to", s.latest)
             ELSE Display("n/a", Undefined)

PlainNote(s) ==
    IF s.compatInfo.isCompatible
    THEN Note("Likely compatible with Angular", s.compatInfo.reason)
    ELSE Note("May not be compatible with Angular", s.compatInfo.reason)

\* earliestCompat || '', latestCompat || ''
OrEmpty(v) == IF Truthy(v) THEN Display("version", v) ELSE Display("", Undefined)

\* CompatDisplay that shows the bounds of every package
CompatDisplayAlways(s, v) == OrEmpty(v)

\* lines 521-522 and 555-556: a compat bound as displayed
CompatDisplay(s, v) ==
    IF s.hasAngularPeerDep THEN OrEmpty(v) ELSE Display("n/a", Undefined)

\* lines 578-590
SuccessRow(s, e, meta) ==
    [name |-> e.name,
     current |-> e.current,
     latest |-> s.latest,
     earliestCompat |-> CompatDisplay(s, EarliestCompat(s)),
     latestCompat |-> CompatDisplay(s, LatestCompat(s)),
     peerAngular |-> IF s.hasAngularPeerDep THEN s.peerAngular ELSE NoPeer,
     peerAngularNote |-> IF s.hasAngularPeerDep THEN "" ELSE "Does not depend on Angular",
     versionsBehindLatestCompat |-> VersionsBehind(s, e),
     recommendedVersion |-> IF s.hasAngularPeerDep THEN PeerRecommendation(s, e)
                            ELSE PlainRecommendation(s, e),
     note |-> IF s.hasAngularPeerDep THEN PeerNote(s, e) ELSE PlainNote(s),
     migrationLink |-> resolveMigrationLink(e.name, meta),
     isDev |-> e.isDev]

\* FailureRow with the two sentinels exchanged
FailureRowSentinelsSwapped(e) ==
    [name |-> e.name,
     current |-> e.current,
     latest |-> Undefined,
     earliestCompat |-> Display("Unknown", Undefined),
     latestCompat |-> Display("Unknown", Undefined),
     peerAngular |-> NoPeer,
     peerAngularNote |-> "n/a",
     versionsBehindLatestCompat |-> Distance("n/a", 0),
     recommendedVersion |-> Display("Unknown", Undefined),
     note |-> Note("Failed to fetch metadata", ""),
     migrationLink |-> MigrationLinks(e.name),
     isDev |-> e.isDev]

\* lines 596-607
FailureRow(e) ==
    [name |-> e.name,
     current |-> e.current,
     latest |-> Undefined,
     earliestCompat |-> Display("n/a", Undefined),
     latestCompat |-> Display("n/a", Undefined),
     peerAngular |-> NoPeer,
     peerAngularNote |-> "Unknown",
     versionsBehindLatestCompat |-> Distance("Unknown", 0),
     recommendedVersion |-> Display("n/a", Undefined),
     note |-> Note("Failed to fetch metadata", ""),
     migrationLink |-> MigrationLinks(e.name),
     isDev |-> e.isDev]

-----------------------------------------------------------------------------
(* The shared state of the program as one record, so that the steps of a   *)
(* callback compose.                                                       *)

World ==
    [queue |-> queue, results |-> results, finished |-> finished,
     versionQueries |-> versionQueries, workerStatuses |-> workerStatuses,
     displayInitialized |-> displayInitialized, wk |-> wk, taken |-> taken,
     probes |-> probes, appended |-> appended, rowLocals |-> rowLocals]

SetWorld(G) ==
    /\ queue' = G.queue
    /\ results' = G.results
    /\ finished' = G.finished
    /\ versionQueries' = G.versionQueries
    /\ workerStatuses' = G.workerStatuses
    /\ displayInitialized' = G.displayInitialized
    /\ wk' = G.wk
    /\ taken' = G.taken
    /\ probes' = G.probes
    /\ appended' = G.appended
    /\ rowLocals' = G.rowLocals

\* lines 183-186 (the redraw of lines 187-192 only renders)
updateWorkerStatus(c, G, workerId, status) ==
    IF ~c.showProgress \/ ~G.displayInitialized THEN G
    ELSE [G EXCEPT !.workerStatuses =
            [i \in DOMAIN G.workerStatuses \cup {workerId} |->
                IF i = workerId THEN status ELSE G.workerStatuses[i]]]

\* queue.pop() in the place of queue.shift(): the newest entry first
QueuePopped(q) == q[Len(q)]

\* line 637: queue.shift() returns the oldest entry
QueueShifted(q) == Head(q)

\* reading queue[0] instead of shifting it
QueueAfterShiftPeek(q) == q

\* line 637: queue.shift() leaves the rest of the queue
QueueAfterShift(q) == Tail(q)

\* the loop test off by one
QueueHasWorkOffByOne(q) == Len(q) > 1

\* line 636: while (queue.length > 0)
QueueHasWork(q) == Len(q) > 0

\* lines 320-324: processPackage up to its first await
StartPackage(c, G, workerId, entry) ==
    LET G1 == updateWorkerStatus(c, G, workerId,
                                 Status("meta", depEntries[entry].name, Undefined))
    IN  [G1 EXCEPT !.wk[workerId] = [NoLocals EXCEPT !.pc = "meta", !.entry = entry]]

\* lines 635-641: worker(), from the loop test to its next await or its return
WorkerLoop(c, G, workerId) ==
    IF QueueHasWork(G.queue)
    THEN LET entry == QueueShifted(G.queue)
         IN  StartPackage(c, [G EXCEPT !.queue = QueueAfterShift(G.queue),
                                       !.taken = Append(G.taken, <<workerId, entry>>)],
                          workerId, entry)
    ELSE LET G1 == updateWorkerStatus(c, G, workerId, Status("Finished.", "", Undefined))
         IN  [G1 EXCEPT !.wk[workerId] = [NoLocals EXCEPT !.pc = "done"]]

\* PublishRow with the push inside the verbose branch
PublishRowWhenVerbose(c, G, workerId, row, status) ==
    IF c.verbose
    THEN updateWorkerStatus(c,
             [G EXCEPT !.results = Append(G.results, row),
                       !.appended = Append(G.appended, G.wk[workerId].entry),
                       !.rowLocals = Append(G.rowLocals, G.wk[workerId])],
             workerId, status)
    ELSE G

\* lines 592-593 and 596-608: the row is appended, verbose mode reports it
PublishRow(c, G, workerId, row, status) ==
    LET G1 == [G EXCEPT !.results = Append(G.results, row),
                        !.appended = Append(G.appended, G.wk[workerId].entry),
                        !.rowLocals = Append(G.rowLocals, G.wk[workerId])]
    IN  IF c.verbose THEN updateWorkerStatus(c, G1, workerId, status) ELSE G1

\* EndPackage whose catch block reports the failure but appends no row
EndPackageDropFailure(c, G, workerId, row, status) ==
    Once(IF status.k = "FAIL" THEN G ELSE PublishRow(c, G, workerId, row, status),
         LAMBDA G1 : WorkerLoop(c, [G1 EXCEPT !.finished = G1.finished + 1], workerId))

\* EndPackage without the catch block: the rejection ends the worker
EndPackageAbortOnFailure(c, G, workerId, row, status) ==
    IF status.k = "FAIL"
    THEN [G EXCEPT !.finished = G.finished + 1,
                   !.wk[workerId] = [NoLocals EXCEPT !.pc = "done"]]
    ELSE Once(PublishRow(c, G, workerId, row, status),
              LAMBDA G1 : WorkerLoop(c, [G1 EXCEPT !.finished = G1.finished + 1],
                                     workerId))

\* EndPackage under a worker() that tests the queue with `if`, not `while`: the
\* worker returns after its first entry
EndPackageNoLoop(c, G, workerId, row, status) ==
    Once(PublishRow(c, G, workerId, row, status),
         LAMBDA G1 : [G1 EXCEPT !.finished = G1.finished + 1,
                                !.wk[workerId] = [NoLocals EXCEPT !.pc = "done"]])

\* EndPackage with finished++ at the end of the try block, not in finally
EndPackageCountSuccessOnly(c, G, workerId, row, status) ==
    Once(PublishRow(c, G, workerId, row, status),
         LAMBDA G1 : WorkerLoop(c, [G1 EXCEPT !.finished = IF status.k = "FAIL"
                                                           THEN G1.finished
                                                           ELSE G1.finished + 1],
                                workerId))

\* lines 609-611, then back in worker() at line 636
EndPackage(c, G, workerId, row, status) ==
    Once(PublishRow(c, G, workerId, row, status),
         LAMBDA G1 : WorkerLoop(c, [G1 EXCEPT !.finished = G1.finished + 1], workerId))

\* lines 354-358 and 393-397: the head of a loop pass, up to the await
IssueProbe(c, G, workerId, s, name) ==
    LET v == ProbedVersion(s)
        G1 == updateWorkerStatus(c, G, workerId,
                  Status(IF s.pc = "ext" THEN "scan (extended)" ELSE "scan", name, v))
    IN  [G1 EXCEPT !.versionQueries = G1.versionQueries + 1,
                   !.probes[s.entry] = Append(G1.probes[s.entry],
                                              [v |-> v, extended |-> s.pc = "ext"]),
                   !.wk[workerId] = s]

\* what processPackage does with locals s once a registry call has been handled
Continue(c, G, workerId, s) ==
    LET e == depEntries[s.entry]
        old == G.wk[workerId]
    IN  CASE s.pc = "scan" -> IssueProbe(c, G, workerId, s, e.name)
          [] s.pc = "ext" ->
                IssueProbe(c,
                    IF old.pc # "ext"
                    THEN updateWorkerStatus(c, G, workerId,
                             Status("extending search", e.name, Undefined))
                    ELSE G,
                    workerId, s, e.name)
          [] s.pc = "heur" ->
                [updateWorkerStatus(c, G, workerId,
                     Status("checking Angular compat", e.name, Undefined))
                 EXCEPT !.wk[workerId] = s]
          [] s.pc = "final" ->
                Once(SuccessRow(s, e, registry[e.name]),
                     LAMBDA row : EndPackage(c, [G EXCEPT !.wk[workerId] = s],
                                             workerId, row,
                                             Status("OK", e.name, LatestCompat(s))))

\* the registry call worker workerId awaits returns
Deliver(c, G, workerId) ==
    LET s == G.wk[workerId]
        e == depEntries[G.wk[workerId].entry]
        r == registry[depEntries[G.wk[workerId].entry].name]
    IN  CASE s.pc = "meta" ->
                IF r.meta = "fail"
                THEN EndPackage(c, G, workerId, FailureRow(e),
                                Status("FAIL", e.name, Undefined))
                ELSE Once(AfterMeta(c, s, e, r),
                          LAMBDA s1 : Continue(c, G, workerId, s1))
          [] s.pc = "scan" ->
                Once(ScanBody(c, s, e, r.peer[ProbedVersion(s)]),
                     LAMBDA s1 : Continue(c, G, workerId, s1))
          [] s.pc = "ext" ->
                Once(ExtBody(c, s, e, r.peer[ProbedVersion(s)]),
                     LAMBDA s1 : Continue(c, G, workerId, s1))
          [] s.pc = "heur" ->
                Once(HeurBody(s, e, r.heur),
                     LAMBDA s1 : Continue(c, G, workerId, s1))

Awaiting(s) == s.pc \in {"meta", "scan", "ext", "heur"}

-----------------------------------------------------------------------------
(* run() *)

\* workerCount without the clamp to the queue length
WorkerCountUnclamped(c, n) == c.jobs

\* line 616
WorkerCount(c, n) == IF c.jobs < n THEN c.jobs ELSE n

\* the comparator with the group test inverted
CompareResultsDevFirst(a, b) ==
    IF a.isDev # b.isDev THEN a.isDev
    ELSE LocaleCompareBefore(a.name, b.name)

\* the comparator without the name comparison
CompareResultsByGroupOnly(a, b) ==
    IF a.isDev # b.isDev THEN ~a.isDev
    ELSE FALSE

\* lines 663-668: a sorts strictly before b
CompareResults(a, b) ==
    IF a.isDev # b.isDev THEN ~a.isDev
    ELSE LocaleCompareBefore(a.name, b.name)

RECURSIVE InsertResult(_, _)
InsertResult(s, x) ==
    IF s = <<>> THEN <<x>>
    ELSE IF CompareResults(x, Head(s)) THEN <<x>> \o s
         ELSE <<Head(s)>> \o InsertResult(Tail(s), x)

\* results.sort(...): stable
RECURSIVE SortResults(_)
SortResults(s) ==
    IF s = <<>> THEN <<>>
    ELSE Once(SortResults(SubSeq(s, 1, Len(s) - 1)), LAMBDA t : InsertResult(t, s[Len(s)]))

Workers == 0..(MaxJobs - 1)

\* lines 614-631: run() up to the loop that starts the workers
RunWorld(c, entries) ==
    LET n == WorkerCount(c, Len(entries))
    IN  [queue |-> [i \in 1..Len(entries) |-> i],
         results |-> <<>>, finished |-> 0, versionQueries |-> 0,
         workerStatuses |-> [i \in 0..(n - 1) |-> Status("idle", "", Undefined)],
         displayInitialized |-> c.showProgress,
         wk |-> [w \in Workers |-> NoLocals],
         taken |-> <<>>,
         probes |-> [i \in 1..Len(entries) |-> <<>>],
         appended |-> <<>>,
         rowLocals |-> <<>>]

RunStart ==
    /\ runPc = "init"
    /\ workerCount' = WorkerCount(cfg, Len(depEntries))
    /\ \E G \in {RunWorld(cfg, depEntries)} : SetWorld(G)
    /\ runPc' = IF workerCount' > 0 THEN "spawning" ELSE "awaiting"
    /\ UNCHANGED <<cfg, depEntries, registry, output>>

\* lines 643-645: workers.push(worker(i)); worker i runs up to its first await
Started == Cardinality({w \in Workers : wk[w].pc # "unstarted"})

SpawnWorker ==
    /\ runPc = "spawning"
    /\ Started \in Workers
    /\ \E G \in {WorkerLoop(cfg, World, Started)} : SetWorld(G)
    /\ runPc' = IF Started + 1 < workerCount THEN "spawning" ELSE "awaiting"
    /\ UNCHANGED <<cfg, depEntries, registry, workerCount, output>>

\* execJson of line 324 resolves or rejects
MetaReturn(w) ==
    /\ runPc = "awaiting"
    /\ wk[w].pc = "meta"
    /\ \E G \in {Deliver(cfg, World, w)} : SetWorld(G)
    /\ UNCHANGED <<cfg, depEntries, registry, runPc, workerCount, output>>

\* execRaw of line 358 returns
ScanReturn(w) ==
    /\ runPc = "awaiting"
    /\ wk[w].pc = "scan"
    /\ \E G \in {Deliver(cfg, World, w)} : SetWorld(G)
    /\ UNCHANGED <<cfg, depEntries, registry, runPc, workerCount, output>>

\* execRaw of line 397 returns
ExtReturn(w) ==
    /\ runPc = "awaiting"
    /\ wk[w].pc = "ext"
    /\ \E G \in {Deliver(cfg, World, w)} : SetWorld(G)
    /\ UNCHANGED <<cfg, depEntries, registry, runPc, workerCount, output>>

\* execJson of line 271 resolves or rejects
HeurReturn(w) ==
    /\ runPc = "awaiting"
    /\ wk[w].pc = "heur"
    /\ \E G \in {Deliver(cfg, World, w)} : SetWorld(G)
    /\ UNCHANGED <<cfg, depEntries, registry, runPc, workerCount, output>>

\* lines 646-668: Promise.all(workers) has resolved
RunFinish ==
    /\ runPc = "awaiting"
    /\ \A w \in Workers : wk[w].pc \in {"unstarted", "done"}
    /\ results' = SortResults(results)
    /\ output' = results'
    /\ runPc' = "done"
    /\ UNCHANGED <<cfg, depEntries, registry, queue, workerCount, displayInitialized,
                   workerStatuses, finished, versionQueries, wk, taken, probes,
                   appended, rowLocals>>

Next ==
    \/ RunStart
    \/ SpawnWorker
    \/ \E w \in Workers : MetaReturn(w)
    \/ \E w \in Workers : ScanReturn(w)
    \/ \E w \in Workers : ExtReturn(w)
    \/ \E w \in Workers : HeurReturn(w)
    \/ RunFinish

-----------------------------------------------------------------------------
(* Inputs *)

Entry(name, current, isDev) == [name |-> name, current |-> current, isDev |-> isDev]

\* package.json: dependencies first, then devDependencies (lines 63-70); a
\* name is a key of either object at most once
EntryLists(names, currents, maxLen) ==
    {el \in UNION {[1..n -> [name : names, current : currents, isDev : BOOLEAN]] :
                     n \in 0..maxLen} :
        /\ \A i, j \in 1..Len(el) : i < j => (el[i].isDev => el[j].isDev)
        /\ \A i, j \in 1..Len(el) :
              i # j /\ el[i].isDev = el[j].isDev => el[i].name # el[j].name}

Config(jobs, fastLimit, exhaustive, includePrerelease, showProgress, verbose, major) ==
    [jobs |-> jobs, fastLimit |-> fastLimit, exhaustive |-> exhaustive,
     includePrerelease |-> includePrerelease, showProgress |-> showProgress,
     verbose |-> verbose, angularMajor |-> major]

\* lines 170-181: the globals before run()
BeforeRun ==
    /\ runPc = "init"
    /\ queue = <<>>
    /\ workerCount = 0
    /\ displayInitialized = FALSE
    /\ workerStatuses = <<>>
    /\ results = <<>>
    /\ finished = 0
    /\ versionQueries = 0
    /\ wk = [w \in Workers |-> NoLocals]
    /\ taken = <<>>
    /\ probes = <<>>
    /\ appended = <<>>
    /\ rowLocals = <<>>
    /\ output = <<>>

\* before run(): lines 18-52 and 170-181
InitWith(configs, entryLists, names, responses) ==
    /\ cfg \in configs
    /\ depEntries \in entryLists
    /\ registry \in {r \in [names -> responses] :
                       \A n \in names :
                          (\A i \in 1..Len(depEntries) : depEntries[i].name # n)
                             => r[n] = MetaFailed}
    /\ BeforeRun

\* let angularMajor = 19
DefaultAngularMajor == 19

\* The pool specification: several entries and workers, a small registry.
PoolNames == {"rxjs", "ngx-lib"}

PoolVersionLists == {<<Ver(1, 0, 0), BadVer, PreVer(3, 0, 0), Ver(2, 0, 0)>>}

PoolConfigs ==
    {Config(j, 1, FALSE, FALSE, p, v, DefaultAngularMajor) :
        j \in 1..MaxJobs, p \in BOOLEAN, v \in BOOLEAN}

Init ==
    InitWith(PoolConfigs,
             EntryLists(PoolNames, {Range("^", Ver(1, 0, 0))}, MaxEntries),
             PoolNames,
             Responses(PoolVersionLists, {NoPeer, PeerRange(17, 18)},
                       {HeurInfo(FALSE, FALSE)}))

Spec == Init /\ [][Next]_vars

\* The scan specification: one entry, one worker, every registry answer over
\* three published versions.
ScanHeuristics == {HeurInfo(FALSE, FALSE), HeurInfo(TRUE, FALSE), HeurFailed}

ScanVersions == {Ver(1, 0, 0), Ver(1, 1, 0), Ver(2, 0, 0)}

ScanCurrents ==
    {Range("^", Ver(1, 0, 0)), Ver(1, 1, 0), Range("~", Ver(2, 0, 0)),
     Range("^", Ver(3, 0, 0)), Range(">=", Ver(1, 0, 0))}

ScanConfigs ==
    {Config(1, f, x, FALSE, TRUE, FALSE, DefaultAngularMajor) :
        f \in 0..MaxFast, x \in BOOLEAN}

ScanInit ==
    InitWith(ScanConfigs,
             {<<Entry("ngx-lib", cur, FALSE)>> : cur \in ScanCurrents},
             {"ngx-lib"},
             Responses(Arrangements(ScanVersions),
                       {NoPeer, PeerQueryFailed, PeerRange(17, 18), PeerRange(18, 19)},
                       ScanHeuristics))

ScanSpec == ScanInit /\ [][Next]_vars

\* The row specification: one entry, one worker; a name of every class the
\* heuristic knows, every keyword answer, and version lists that set current
\* and baseline apart in each of major, minor and patch.  The list of a single
\* prerelease is a package without a version once line 330 has filtered it.
RowNames == {"rxjs", "@types/lodash", "ngx-lib"}

RowVersionLists ==
    {<<PreVer(1, 0, 0)>>,
     <<Ver(1, 0, 2)>>,
     <<Ver(1, 0, 2), Ver(2, 1, 0), Ver(1, 1, 0)>>}

RowCurrents ==
    {Ver(1, 0, 0), Range("^", Ver(1, 0, 2)), Ver(1, 2, 0), Range("~", Ver(2, 1, 0)),
     Ver(3, 0, 0), PreVer(1, 0, 2)}

RowHeuristics == {HeurInfo(a, u) : a \in BOOLEAN, u \in BOOLEAN} \cup {HeurFailed}

RowConfigs ==
    {Config(1, f, FALSE, FALSE, TRUE, FALSE, DefaultAngularMajor) : f \in 0..(MaxFast - 1)}

RowInit ==
    /\ cfg \in RowConfigs
    /\ depEntries \in {<<Entry(n, cur, FALSE)>> : n \in RowNames, cur \in RowCurrents}
    /\ registry \in
          {[n \in RowNames |-> IF n = depEntries[1].name THEN r ELSE MetaFailed] :
              r \in Responses(RowVersionLists,
                              {NoPeer, PeerRange(17, 18), PeerRange(18, 19)},
                              RowHeuristics)}
    /\ BeforeRun

RowSpec == RowInit /\ [][Next]_vars

\* Every registry call returns and run()'s own synchronous code runs on: as
\* long as a step of the program is possible, one is taken.  The progress
\* display is on and terse, the setting of a plain command line.
FairConfigs == {c \in PoolConfigs : c.showProgress /\ ~c.verbose}

FairInit ==
    InitWith(FairConfigs,
             EntryLists(PoolNames, {Range("^", Ver(1, 0, 0))}, MaxEntries),
             PoolNames,
             Responses(PoolVersionLists, {NoPeer, PeerRange(17, 18)},
                       {HeurInfo(FALSE, FALSE)}))

FairSpec == FairInit /\ [][Next]_vars /\ WF_vars(Next)

\* A registry call that never returns.  execJson and execRaw (136-156) set no
\* timeout, so the promise the worker awaits may stay pending for ever: the
\* worker keeps its entry and its code after the await never runs.  One call
\* of a run hangs at most; every other call returns.
Hang(w) ==
    /\ Awaiting(wk[w])
    /\ \A v \in Workers : wk[v].pc # "hung"
    /\ wk' = [wk EXCEPT ![w].pc = "hung"]
    /\ UNCHANGED <<cfg, depEntries, registry, runPc, queue, workerCount,
                   displayInitialized, workerStatuses, results, finished,
                   versionQueries, taken, probes, appended, rowLocals, output>>

StallNext ==
    \/ Next
    \/ \E w \in Workers : Hang(w)

\* the registry answers of the pool specification in which all versions of a
\* package declare the same peer requirement
StallResponses ==
    {r \in Responses(PoolVersionLists, {NoPeer, PeerRange(17, 18)},
                     {HeurInfo(FALSE, FALSE)}) :
        \A u, v \in DOMAIN r.peer : r.peer[u] = r.peer[v]}

\* one entry more than in the pool specification, so that a worker goes on to
\* a further entry while another one is stalled
StallEntries == MaxEntries + 1

\* --jobs 2: the smallest pool in which a worker is left when one stalls
StallConfigs == {c \in FairConfigs : c.jobs = 2}

StallInit ==
    InitWith(StallConfigs,
             EntryLists(PoolNames, {Range("^", Ver(1, 0, 0))}, StallEntries),
             PoolNames, StallResponses)

StallSpec == StallInit /\ [][StallNext]_vars /\ WF_vars(Next)

-----------------------------------------------------------------------------
(* The sequential run: one schedule of the program, computed as a function *)
(* of the inputs.  The lowest-numbered waiting worker is always served     *)
(* first.                                                                   *)

RECURSIVE SpawnAll(_, _, _, _)
SpawnAll(c, G, i, n) ==
    IF i >= n THEN G ELSE SpawnAll(c, WorkerLoop(c, G, i), i + 1, n)

RECURSIVE RunToEnd(_, _)
RunToEnd(c, G) ==
    LET waiting == {w \in Workers : Awaiting(G.wk[w])}
    IN  IF waiting = {} THEN G
        ELSE Once(Deliver(c, G, CHOOSE w \in waiting : \A v \in waiting : w <= v),
                  LAMBDA G1 : RunToEnd(c, G1))

SequentialRun(c) ==
    LET G == RunToEnd(c, SpawnAll(c, RunWorld(c, depEntries), 0,
                                  WorkerCount(c, Len(depEntries))))
    IN  [G EXCEPT !.results = SortResults(G.results)]

-----------------------------------------------------------------------------
(* Properties *)

NumEntries == Len(depEntries)

Min(a, b) == IF a < b THEN a ELSE b

\* the rows of the results collection that belong to entry i
RowsOf(i) ==
    {k \in 1..Len(results) :
        results[k].name = depEntries[i].name /\ results[k].isDev = depEntries[i].isDev}

IsFailureRow(row) == row.note.k = "Failed to fetch metadata"

MetaFails(i) == registry[depEntries[i].name].meta = "fail"

\* every started worker has returned
PoolComplete ==
    /\ runPc \in {"awaiting", "done"}
    /\ \A w \in Workers : ~Awaiting(wk[w])

TakenEntries == {taken[k][2] : k \in 1..Len(taken)}

TakenBy(w) == {taken[k][2] : k \in {j \in 1..Len(taken) : taken[j][1] = w}}

\* entries dequeued whose row is not yet in the results collection
InFlight == {i \in TakenEntries : RowsOf(i) = {}}

\* C1: when the pool has completed, the results collection holds exactly one
\* row per input entry: as many rows as entries, and for every entry (name and
\* dev flag) exactly one row, whatever the registry answered.
C1_OneRowPerEntry ==
    PoolComplete =>
        /\ Len(results) = NumEntries
        /\ \A i \in 1..NumEntries : Cardinality(RowsOf(i)) = 1
        /\ runPc = "done" => Len(output) = NumEntries

C1_Witness ==
    /\ runPc = "done"
    /\ NumEntries >= 2
    /\ cfg.jobs >= 2
    /\ \E i, j \in 1..NumEntries : MetaFails(i) /\ ~MetaFails(j)
    /\ Len(output) = NumEntries

\* C2: a failed metadata lookup aborts neither the pool nor a worker.  The
\* step that handles the failure appends the failure row of that entry, leaves
\* run() and every other worker as they were, and has the same worker dequeue
\* the head of the queue (or return when the queue is empty); and at pool
\* completion every entry whose lookup succeeded has its own non-failure row.
C2_FailureStep ==
    \A w \in Workers :
        (/\ runPc = "awaiting"
         /\ wk[w].pc = "meta"
         /\ MetaFails(wk[w].entry)
         /\ wk'[w] # wk[w])
        =>
        /\ runPc' = "awaiting"
        /\ results' = Append(results, FailureRow(depEntries[wk[w].entry]))
        /\ \A v \in Workers \ {w} : wk'[v] = wk[v]
        /\ IF queue # <<>>
           THEN /\ wk'[w].pc = "meta"
                /\ wk'[w].entry = Head(queue)
                /\ queue' = Tail(queue)
           ELSE wk'[w].pc = "done" /\ queue' = queue

C2_OthersGetRows ==
    PoolComplete =>
        \A i \in 1..NumEntries :
            ~MetaFails(i) =>
                \E k \in RowsOf(i) : ~IsFailureRow(results[k])

C2_FailureIsNotFatal == [][C2_FailureStep]_vars /\ []C2_OthersGetRows

\* a worker handled a failing entry and then took another entry, which got
\* its row
C2_Witness ==
    /\ runPc = "done"
    /\ \E k, l \in 1..Len(taken) :
          /\ k < l
          /\ taken[k][1] = taken[l][1]
          /\ MetaFails(taken[k][2])
          /\ ~MetaFails(taken[l][2])
          /\ \E r \in RowsOf(taken[l][2]) : ~IsFailureRow(results[r])

\* C3: if every registry call returns, the pool eventually completes; it is
\* complete only with an empty queue and no entry in flight; and with no
\* entries it completes without a single registry call, with an empty output.
C3_CompleteMeansDrained ==
    runPc = "done" =>
        /\ queue = <<>>
        /\ InFlight = {}
        /\ \A w \in Workers : ~Awaiting(wk[w])

C3_EmptyInput ==
    NumEntries = 0 =>
        /\ versionQueries = 0
        /\ \A w \in Workers : wk[w].pc = "unstarted"
        /\ runPc = "done" => output = <<>>

C3_PoolCompletes ==
    /\ <>(runPc = "done")
    /\ []C3_CompleteMeansDrained
    /\ []C3_EmptyInput

C3_Witness ==
    /\ runPc = "done"
    /\ NumEntries >= 2
    /\ cfg.jobs >= 2
    /\ versionQueries >= 2

\* C4: every entry is dequeued by exactly one worker: the dequeue log never
\* names an entry twice, the entries dequeued and the entries still queued
\* are all the entries, and once all workers have returned the queue is empty
\* and every entry has been dequeued.
C4_DequeuedOnce ==
    /\ \A k, l \in 1..Len(taken) : k # l => taken[k][2] # taken[l][2]
    /\ runPc # "init" =>
          /\ TakenEntries \cup SeqElems(queue) = 1..NumEntries
          /\ TakenEntries \cap SeqElems(queue) = {}
    /\ PoolComplete => (queue = <<>> /\ TakenEntries = 1..NumEntries)

C4_Witness ==
    /\ PoolComplete
    /\ NumEntries >= 2
    /\ \E k, l \in 1..Len(taken) : taken[k][1] # taken[l][1]

\* C5: run() starts min(jobs, N) workers, and at no time are more than
\* min(jobs, N) entries in flight, nor more than one per worker.
C5_BoundedWorkers ==
    LET limit == Min(cfg.jobs, NumEntries)
    IN  /\ runPc # "init" => workerCount = limit
        /\ Started <= limit
        /\ runPc \in {"awaiting", "done"} => Started = limit
        /\ Cardinality(InFlight) <= limit
        /\ \A w \in Workers : Cardinality(InFlight \cap TakenBy(w)) <= 1

C5_Witness ==
    /\ cfg.jobs = 2
    /\ Cardinality(InFlight) = 2
    /\ \A w \in 0..1 : Cardinality(InFlight \cap TakenBy(w)) = 1

\* C6: in the final output every non-dev row precedes every dev row, and
\* within each group the rows are in ascending (localeCompare) name order.
C6_OutputOrdered ==
    runPc = "done" =>
        \A i, j \in 1..Len(output) :
            i < j =>
                /\ output[i].isDev => output[j].isDev
                /\ output[i].isDev = output[j].isDev
                      => LocaleCompareBefore(output[i].name, output[j].name)

\* the rows were appended in another order than they are printed in
C6_Witness ==
    /\ runPc = "done"
    /\ Len(output) >= 2
    /\ \E i \in 1..Len(output) :
          output[i].name # depEntries[appended[i]].name
            \/ output[i].isDev # depEntries[appended[i]].isDev

\* C7: for fixed registry answers the final output, rows and order, is the
\* output of the sequential single-worker run, for every worker count and
\* every interleaving; only the append order differs.
C7_OutputDeterministic ==
    runPc = "done" => output = SequentialRun([cfg EXCEPT !.jobs = 1]).results

\* two workers appended the rows in another order than the sequential run
C7_Witness ==
    /\ runPc = "done"
    /\ cfg.jobs >= 2
    /\ appended # SequentialRun([cfg EXCEPT !.jobs = 1]).appended
    /\ output = SequentialRun([cfg EXCEPT !.jobs = 1]).results

\* C8: the progress state never influences control flow or results: a run
\* dequeues, probes the same versions and prints the same rows as the run on
\* the same inputs with the progress and verbose toggles off.
QuietRun == SequentialRun([cfg EXCEPT !.showProgress = FALSE, !.verbose = FALSE])

C8_ProgressIsObservational ==
    runPc = "done" =>
        /\ output = QuietRun.results
        /\ probes = QuietRun.probes
        /\ versionQueries = QuietRun.versionQueries
        /\ finished = QuietRun.finished
        /\ TakenEntries = {QuietRun.taken[k][2] : k \in 1..Len(QuietRun.taken)}

C8_Witness ==
    /\ runPc = "done"
    /\ cfg.showProgress /\ cfg.verbose
    /\ NumEntries >= 2
    /\ \E w \in DOMAIN workerStatuses : workerStatuses[w].k = "Finished."
    /\ QuietRun.workerStatuses # workerStatuses
    /\ output = QuietRun.results

\* the peer queries issued for entry i so far
ProbesOf(i) == IF i \in DOMAIN probes THEN probes[i] ELSE <<>>

\* the published versions of entry i as the scan orders them, newest first
ScanOrder(i) == SortedVersions(cfg, registry[depEntries[i].name])

\* whether the registry reports a formal peer requirement for version v of entry i
FormalPeer(i, v) == HasPeer(registry[depEntries[i].name].peer[v])

\* C9: in non-exhaustive mode, when the first probed version of a package, the
\* newest one, declares no formal peer requirement, the scan of that package
\* issues exactly one peer query, whatever the fast limit (none included) and
\* however long the version list.
C9_EarlyExit ==
    \A i \in 1..NumEntries :
        (/\ ~cfg.exhaustive
         /\ ProbesOf(i) # <<>>
         /\ ~FormalPeer(i, ProbesOf(i)[1].v))
        =>
        ProbesOf(i) = <<[v |-> ScanOrder(i)[1], extended |-> FALSE]>>

\* a finished scan without fast limit over three versions, the newest of which
\* has no formal peer requirement and the next one has
C9_Witness ==
    /\ runPc = "done"
    /\ ~cfg.exhaustive
    /\ cfg.fastLimit = 0
    /\ Len(ScanOrder(1)) = 3
    /\ ~FormalPeer(1, ScanOrder(1)[1])
    /\ FormalPeer(1, ScanOrder(1)[2])
    /\ Len(ProbesOf(1)) = 1
    /\ \E k \in RowsOf(1) : ~IsFailureRow(results[k])

\* the loop of the fast limit is over for entry i
LimitedScanEnded(i) ==
    /\ i \in TakenEntries
    /\ \A w \in Workers : wk[w].entry = i => wk[w].pc \notin {"meta", "scan"}

\* the versions probed by the loop of the fast limit
LimitedProbes(i) == {ProbesOf(i)[k].v : k \in {j \in 1..Len(ProbesOf(i)) : ~ProbesOf(i)[j].extended}}

\* how many versions a scan that extends has to probe: down to the current
\* version, or all of them when the current version is not published
ExtensionEnd(i) ==
    LET vs == ScanOrder(i)
        currentClean == stripRange(depEntries[i].current)
    IN  IF Includes(vs, currentClean)
        THEN CHOOSE k \in 1..Len(vs) : vs[k] = currentClean
        ELSE Len(vs)

\* C10: when the scan under fast limit F > 0 has ended without the current
\* version among the versions probed and a probed version declared a formal
\* peer requirement, the probes are the versions in descending order, those
\* after the F-th marked as extension, exhaustive or not; the scan never goes
\* beyond the current version, and when the row is appended it has probed
\* the current version or the whole list.
C10_Extension ==
    \A i \in 1..NumEntries :
        (/\ cfg.fastLimit > 0
         /\ LimitedScanEnded(i)
         /\ stripRange(depEntries[i].current) \notin LimitedProbes(i)
         /\ \E v \in LimitedProbes(i) : FormalPeer(i, v))
        =>
        /\ \A k \in 1..Len(ProbesOf(i)) :
              ProbesOf(i)[k] = [v |-> ScanOrder(i)[k], extended |-> k > cfg.fastLimit]
        /\ Len(ProbesOf(i)) <= ExtensionEnd(i)
        /\ RowsOf(i) # {} => Len(ProbesOf(i)) = ExtensionEnd(i)

\* fast limit 2, three versions with formal peer requirements, the current
\* version the oldest, exhaustive set: the third probe is an extension probe
C10_Witness ==
    /\ runPc = "done"
    /\ cfg.fastLimit = 2
    /\ cfg.exhaustive
    /\ Len(ScanOrder(1)) = 3
    /\ \A k \in 1..3 : FormalPeer(1, ScanOrder(1)[k])
    /\ stripRange(depEntries[1].current) = ScanOrder(1)[3]
    /\ Len(ProbesOf(1)) = 3
    /\ ProbesOf(1)[3].extended

-----------------------------------------------------------------------------
(* The row of an entry and the locals it was built from *)

HasRow(i) == i \in DOMAIN depEntries /\ RowsOf(i) # {}

RowOf(i) == results[CHOOSE k \in RowsOf(i) : TRUE]

\* processPackage's locals when the row of entry i was appended
LocalsOf(i) == rowLocals[CHOOSE k \in 1..Len(appended) : appended[k] = i]

CurrentClean(i) == stripRange(depEntries[i].current)

NotApplicable == Display("n/a", Undefined)

\* some probe of entry i was answered with a formal peer requirement
FormalPeerSeen(i) ==
    \E k \in 1..Len(ProbesOf(i)) : FormalPeer(i, ProbesOf(i)[k].v)

\* C11: the row of a package none of whose probed versions declared a formal
\* peer requirement has n/a as earliestCompat and as latestCompat, whatever
\* the keyword query answered.
C11_NoPeerNoBounds ==
    \A i \in 1..NumEntries :
        HasRow(i) /\ ~FormalPeerSeen(i) =>
            /\ RowOf(i).earliestCompat = NotApplicable
            /\ RowOf(i).latestCompat = NotApplicable

\* a scan that probed a version and found it compatible, no formal peer
\* requirement, and a keyword query that failed
C11_Witness ==
    /\ runPc = "done"
    /\ HasRow(1)
    /\ ~IsFailureRow(RowOf(1))
    /\ ProbesOf(1) # <<>>
    /\ ~FormalPeerSeen(1)
    /\ LocalsOf(1).compatVersions # <<>>
    /\ ~LocalsOf(1).compatInfo.isCompatible
    /\ RowOf(1).latestCompat = NotApplicable

\* C12: in the row of a package with a formal peer requirement, an
\* earliestCompat that is present comes with a latestCompat and is not newer
\* than it, in every scan mode (full, fast, fast with extension, exhaustive).
C12_EarliestNotNewer ==
    \A i \in 1..NumEntries :
        (/\ HasRow(i)
         /\ FormalPeerSeen(i)
         /\ RowOf(i).earliestCompat.k = "version")
        =>
        /\ RowOf(i).latestCompat.k = "version"
        /\ ~SemverGt(RowOf(i).earliestCompat.v, RowOf(i).latestCompat.v)

\* an extended fast scan of a version list the registry gave oldest first,
\* with two compatible versions
C12_Witness ==
    /\ runPc = "done"
    /\ HasRow(1)
    /\ FormalPeerSeen(1)
    /\ cfg.fastLimit = 1
    /\ \E k \in 1..Len(ProbesOf(1)) : ProbesOf(1)[k].extended
    /\ registry[depEntries[1].name].versions = <<Ver(1, 0, 0), Ver(1, 1, 0), Ver(2, 0, 0)>>
    /\ RowOf(1).earliestCompat.k = "version"
    /\ SemverGt(RowOf(1).latestCompat.v, RowOf(1).earliestCompat.v)

\* the recommendations a row can carry
Keep == Display("#3 Keep current version", Undefined)

OptionalUpgrade(v) == Display("#2 Optionally upgrade to", v)

MustUpgrade(v) == Display("#1 Must upgrade to", v)

IsMustUpgrade(r) == r.k = "#1 Must upgrade to"

\* C13: with a formal peer requirement and the current version among the
\* compatible versions, the recommendation is Keep when the current version
\* is latestCompat and otherwise OptionalUpgrade naming latestCompat; never
\* MustUpgrade.
C13_CompatibleCurrent ==
    \A i \in 1..NumEntries :
        (/\ HasRow(i)
         /\ FormalPeerSeen(i)
         /\ Includes(LocalsOf(i).compatVersions, CurrentClean(i)))
        =>
        /\ RowOf(i).latestCompat.k = "version"
        /\ RowOf(i).latestCompat.v = LocalsOf(i).compatVersions[1]
        /\ RowOf(i).recommendedVersion =
              IF CurrentClean(i) = RowOf(i).latestCompat.v
              THEN Keep
              ELSE OptionalUpgrade(RowOf(i).latestCompat.v)
        /\ ~IsMustUpgrade(RowOf(i).recommendedVersion)

\* the current version is compatible and older than the latest compatible one
C13_Witness ==
    /\ runPc = "done"
    /\ HasRow(1)
    /\ FormalPeerSeen(1)
    /\ Includes(LocalsOf(1).compatVersions, CurrentClean(1))
    /\ SemverGt(RowOf(1).latestCompat.v, CurrentClean(1))
    /\ RowOf(1).recommendedVersion = OptionalUpgrade(RowOf(1).latestCompat.v)

\* C14: with a formal peer requirement, a compatible version found and the
\* current version not among the compatible versions, the recommendation is
\* MustUpgrade naming earliestCompat, the oldest compatible version probed.
C14_IncompatibleCurrent ==
    \A i \in 1..NumEntries :
        (/\ HasRow(i)
         /\ FormalPeerSeen(i)
         /\ LocalsOf(i).compatVersions # <<>>
         /\ ~Includes(LocalsOf(i).compatVersions, CurrentClean(i)))
        =>
        /\ RowOf(i).earliestCompat.k = "version"
        /\ RowOf(i).earliestCompat.v =
              LocalsOf(i).compatVersions[Len(LocalsOf(i).compatVersions)]
        /\ RowOf(i).recommendedVersion = MustUpgrade(RowOf(i).earliestCompat.v)

\* the current version was probed and is incompatible, two newer versions
\* are compatible
C14_Witness ==
    /\ runPc = "done"
    /\ HasRow(1)
    /\ FormalPeerSeen(1)
    /\ \E k \in 1..Len(ProbesOf(1)) : ProbesOf(1)[k].v = CurrentClean(1)
    /\ ~Includes(LocalsOf(1).compatVersions, CurrentClean(1))
    /\ Len(LocalsOf(1).compatVersions) = 2
    /\ RowOf(1).recommendedVersion = MustUpgrade(LocalsOf(1).compatVersions[2])

\* the row of entry i was built from metadata, and no probe of the entry was
\* answered with a formal peer requirement
PlainRow(i) == HasRow(i) /\ ~IsFailureRow(RowOf(i)) /\ ~FormalPeerSeen(i)

\* C15 as stated: without a formal peer requirement and with the current
\* version equal to the latest version, the recommendation is Keep, whatever
\* the heuristic classification, a failed keyword query included.
C15_KeepWhenLatest ==
    \A i \in 1..NumEntries :
        PlainRow(i) /\ CurrentClean(i) = RowOf(i).latest =>
            RowOf(i).recommendedVersion = Keep

\* C15, amended: without a formal peer requirement and with the current
\* version equal to the latest version, the recommendation is Keep when the
\* heuristic classification is compatible, and n/a when it is incompatible,
\* which a failed keyword query makes it.
C15_KeepWhenLatestAndCompatible ==
    \A i \in 1..NumEntries :
        PlainRow(i) /\ CurrentClean(i) = RowOf(i).latest =>
            /\ RowOf(i).recommendedVersion =
                  IF LocalsOf(i).compatInfo.isCompatible THEN Keep ELSE NotApplicable
            /\ registry[depEntries[i].name].heur = HeurFailed
                  => ~LocalsOf(i).compatInfo.isCompatible
            /\ registry[depEntries[i].name].heur = HeurInfo(FALSE, FALSE)
                  => LocalsOf(i).compatInfo.isCompatible

\* current equals latest, no formal peer requirement, heuristically compatible
C15_Witness ==
    /\ runPc = "done"
    /\ PlainRow(1)
    /\ ProbesOf(1) # <<>>
    /\ CurrentClean(1) = RowOf(1).latest
    /\ LocalsOf(1).compatInfo.isCompatible
    /\ RowOf(1).recommendedVersion = Keep

\* C16: without a formal peer requirement and with the current version newer
\* than the latest version, the recommendation names no upgrade target: it is
\* neither OptionalUpgrade nor MustUpgrade.
C16_AheadNamesNoTarget ==
    \A i \in 1..NumEntries :
        (/\ PlainRow(i)
         /\ SemverValid(CurrentClean(i))
         /\ SemverValid(RowOf(i).latest)
         /\ SemverGt(CurrentClean(i), RowOf(i).latest))
        =>
        RowOf(i).recommendedVersion.k \notin
            {"#2 Optionally upgrade to", "#1 Must upgrade to"}

\* the peer query for version v of entry i fails
ProbeFails(i, v) == registry[depEntries[i].name].peer[v] = PeerQueryFailed

\* the candidates of the first loop of entry i: the newest fastLimit versions,
\* or all of them without fast limit
Candidates(i) ==
    IF cfg.fastLimit > 0 THEN Slice(ScanOrder(i), 0, cfg.fastLimit) ELSE ScanOrder(i)

\* C17: a failed peer query for one version is treated as that version
\* declaring no formal requirement: the package gets no failure row,
\* hasAngularPeerDep is set by formal answers only, and the scan goes on with
\* the next candidate: a scan whose last probe failed has probed every
\* candidate, or in the extension the current version or the whole list.
C17_FailedProbeScanContinues ==
    \A i \in 1..NumEntries :
        (/\ HasRow(i)
         /\ ProbesOf(i) # <<>>
         /\ \E k \in 1..Len(ProbesOf(i)) : ProbeFails(i, ProbesOf(i)[k].v))
        =>
        /\ ~IsFailureRow(RowOf(i))
        /\ LocalsOf(i).hasAngularPeerDep = FormalPeerSeen(i)
        /\ LET n == Len(ProbesOf(i))
                last == ProbesOf(i)[n]
            IN  ProbeFails(i, last.v) =>
                    IF last.extended
                    THEN last.v = CurrentClean(i) \/ n = Len(ScanOrder(i))
                    ELSE n >= Len(Candidates(i))

\* C18: a version whose peer query failed is never in the list of compatible
\* versions, and so is neither latestCompat nor earliestCompat of the row.
C18_FailedProbeNotCompatible ==
    \A i \in 1..NumEntries :
        HasRow(i) /\ ~IsFailureRow(RowOf(i)) =>
            /\ \A v \in SeqElems(LocalsOf(i).compatVersions) : ~ProbeFails(i, v)
            /\ RowOf(i).latestCompat.k = "version"
                  => ~ProbeFails(i, RowOf(i).latestCompat.v)
            /\ RowOf(i).earliestCompat.k = "version"
                  => ~ProbeFails(i, RowOf(i).earliestCompat.v)

\* what C19 says of a row: the failure note, Unknown and n/a in their places,
\* no latest version, and the entry's own name, current version and dev flag
IsFailureRecordOf(row, e) ==
    /\ row.note.k = "Failed to fetch metadata"
    /\ row.peerAngular = NoPeer /\ row.peerAngularNote = "Unknown"
    /\ row.versionsBehindLatestCompat = Distance("Unknown", 0)
    /\ row.earliestCompat = NotApplicable
    /\ row.latestCompat = NotApplicable
    /\ row.recommendedVersion = NotApplicable
    /\ row.latest = Undefined
    /\ row.name = e.name
    /\ row.current = e.current
    /\ row.isDev = e.isDev

\* C19: the row appended for an entry whose metadata lookup failed is the
\* failure record of that entry, when it is appended and in the output.
C19_FailureRecord ==
    /\ runPc # "done" =>
          \A k \in 1..Len(appended) :
              MetaFails(appended[k]) =>
                  IsFailureRecordOf(results[k], depEntries[appended[k]])
    /\ runPc = "done" =>
          \A i \in 1..NumEntries :
              MetaFails(i) =>
                  \E k \in 1..Len(output) : IsFailureRecordOf(output[k], depEntries[i])

\* a dev entry whose lookup failed, next to an entry whose lookup succeeded
C19_Witness ==
    /\ runPc = "done"
    /\ \E i, j \in 1..NumEntries :
          /\ MetaFails(i) /\ depEntries[i].isDev
          /\ ~MetaFails(j)
          /\ \E k \in 1..Len(output) : IsFailureRecordOf(output[k], depEntries[i])
          /\ \E k \in 1..Len(output) : ~IsFailureRow(output[k])

\* C20: dequeue is first in, first out: the k-th entry dequeued is the k-th
\* entry of the input list, whichever workers dequeue, and the queue holds
\* the entries not yet dequeued in input order.
C20_DequeueInInputOrder ==
    /\ \A k \in 1..Len(taken) : taken[k][2] = k
    /\ runPc # "init" => queue = [k \in 1..(NumEntries - Len(taken)) |-> Len(taken) + k]

\* one worker took the first entry and, while it was still working on it,
\* another worker took the second
C20_Witness ==
    /\ Len(taken) = 2
    /\ taken[1][1] # taken[2][1]
    /\ InFlight = {1, 2}

\* C21: an extension stops right after probing the current version: when the
\* current version is in the version list, no extension probe is of a version
\* older than the current version, and the current version, once probed by
\* the extension, is the last probe.
C21_ExtensionStopsAtCurrent ==
    \A i \in 1..NumEntries :
        Includes(ScanOrder(i), CurrentClean(i)) =>
            \A k \in 1..Len(ProbesOf(i)) :
                ProbesOf(i)[k].extended =>
                    /\ ~SemverGt(CurrentClean(i), ProbesOf(i)[k].v)
                    /\ ProbesOf(i)[k].v = CurrentClean(i) => k = Len(ProbesOf(i))

\* fast limit 1, three versions, the current version the middle one: the
\* extension probed it and left the oldest version alone
C21_Witness ==
    /\ runPc = "done"
    /\ cfg.fastLimit = 1
    /\ Len(ScanOrder(1)) = 3
    /\ CurrentClean(1) = ScanOrder(1)[2]
    /\ Len(ProbesOf(1)) = 2
    /\ ProbesOf(1)[2] = [v |-> CurrentClean(1), extended |-> TRUE]

\* C22: under a fast limit F a scan probes more than F versions only if one
\* of the first F versions declared a formal peer requirement and the current
\* version is not among the first F versions.
C22_BeyondLimitOnlyByExtension ==
    \A i \in 1..NumEntries :
        cfg.fastLimit > 0 /\ Len(ProbesOf(i)) > cfg.fastLimit =>
            /\ \E v \in SeqElems(Candidates(i)) : FormalPeer(i, v)
            /\ ~Includes(Candidates(i), CurrentClean(i))

\* a scan under fast limit 1 that went on to the third version: the newest
\* version declared a formal peer requirement, the current version is the oldest
C22_Witness ==
    /\ runPc = "done"
    /\ cfg.fastLimit = 1
    /\ Len(ScanOrder(1)) = 3
    /\ Len(ProbesOf(1)) = 3
    /\ FormalPeer(1, ScanOrder(1)[1])
    /\ CurrentClean(1) = ScanOrder(1)[3]

\* how many peer queries the loop of the fast limit issued for entry i
NumLimitedProbes(i) ==
    Cardinality({k \in 1..Len(ProbesOf(i)) : ~ProbesOf(i)[k].extended})

\* C27: the peer queries of a package follow the version list from the newest
\* version down without a gap: the k-th query is for the k-th newest version,
\* so the queries are strictly descending and no version is queried twice; the
\* queries of the extension come after those of the limited scan, so the
\* first of them is for the first version the limited scan did not probe.
C27_ProbesDescendOnce ==
    \A i \in 1..NumEntries :
        /\ Len(ProbesOf(i)) <= Len(ScanOrder(i))
        /\ \A k \in 1..Len(ProbesOf(i)) :
               /\ ProbesOf(i)[k].v = ScanOrder(i)[k]
               /\ ProbesOf(i)[k].extended <=> k > NumLimitedProbes(i)
               /\ \A l \in 1..Len(ProbesOf(i)) :
                      k < l => SemverGt(ProbesOf(i)[k].v, ProbesOf(i)[l].v)

\* fast limit 1 and three versions, all probed: one query of the limited scan,
\* then two of the extension
C27_Witness ==
    /\ runPc = "done"
    /\ cfg.fastLimit = 1
    /\ Len(ProbesOf(1)) = 3
    /\ ~ProbesOf(1)[1].extended
    /\ ProbesOf(1)[2].extended
    /\ ProbesOf(1)[3].extended

\* C28: in non-exhaustive mode the loop of the fast limit leaves early only
\* right after its first probe: once it is over it has probed exactly one
\* candidate or every candidate.
C28_OneOrAllCandidates ==
    \A i \in 1..NumEntries :
        ~cfg.exhaustive /\ LimitedScanEnded(i) /\ Candidates(i) # <<>> =>
            NumLimitedProbes(i) \in {1, Len(Candidates(i))}

\* a non-exhaustive scan of three candidates whose newest version has a
\* formal peer requirement and whose second has none: all three were probed
C28_Witness ==
    /\ runPc = "done"
    /\ ~cfg.exhaustive
    /\ cfg.fastLimit = 0
    /\ Len(Candidates(1)) = 3
    /\ FormalPeer(1, ScanOrder(1)[1])
    /\ ~FormalPeer(1, ScanOrder(1)[2])
    /\ ~ProbeFails(1, ScanOrder(1)[2])
    /\ NumLimitedProbes(1) = 3

\* the keyword answer of the registry for entry i
KeywordInfo(i) == registry[depEntries[i].name].heur

\* the verdict of checkAngularCompatibility for the row of entry i
VerdictOf(i) == LocalsOf(i).compatInfo

Baseline(i) ==
    IF FormalPeerSeen(i) THEN LatestCompat(LocalsOf(i)) ELSE LocalsOf(i).latest

\* the wording of a distance of entry i
DistanceWord(i, formal, plain) == IF FormalPeerSeen(i) THEN formal ELSE plain

\* C24: the distance of a row is taken against latestCompat when a formal
\* peer requirement exists and against latest otherwise.  With both versions
\* parsable it is "up to date" when they are equal, "ahead" when current is
\* newer, and when current is older it is baseline minus current in the most
\* significant of major, minor, patch in which the two differ.
C24_DistanceDescriptor ==
    \A i \in 1..NumEntries :
        (/\ HasRow(i)
         /\ ~IsFailureRow(RowOf(i))
         /\ SemverValid(CurrentClean(i))
         /\ SemverValid(Baseline(i)))
        =>
        LET cur == CurrentClean(i)
            base == Baseline(i)
            d == RowOf(i).versionsBehindLatestCompat
            suffix == DistanceWord(i, "behind latest compatible", "behind")
        IN  /\ SemverEq(cur, base) =>
                  d = Distance(DistanceWord(i, "Up to date with latest compatible",
                                            "Up to date"), 0)
            /\ SemverGt(cur, base) =>
                  d = Distance(DistanceWord(i, "Ahead of latest compatible",
                                            "Ahead of latest"), 0)
            /\ SemverGt(base, cur) /\ base.maj # cur.maj =>
                  d = Distance("major " \o suffix, base.maj - cur.maj)
            /\ SemverGt(base, cur) /\ base.maj = cur.maj /\ base.min # cur.min =>
                  d = Distance("minor " \o suffix, base.min - cur.min)
            /\ (/\ SemverGt(base, cur) /\ base.maj = cur.maj
                 /\ base.min = cur.min /\ base.pat # cur.pat) =>
                  d = Distance("patch " \o suffix, base.pat - cur.pat)

\* current 1.0.0 under a formal peer requirement whose newest compatible
\* version is 1.0.2 while latest is 2.1.0: two patch versions behind
C24_Witness ==
    /\ runPc = "done"
    /\ CurrentClean(1) = Ver(1, 0, 0)
    /\ HasRow(1)
    /\ ~IsFailureRow(RowOf(1))
    /\ FormalPeerSeen(1)
    /\ LocalsOf(1).latest = Ver(2, 1, 0)
    /\ Baseline(1) = Ver(1, 0, 2)
    /\ RowOf(1).versionsBehindLatestCompat = Distance("patch behind latest compatible", 2)

\* C25: finished counts the completed entries, failed ones included: in every
\* state between registry calls it equals the number of rows in results, it
\* never exceeds the number of entries, and it equals the number of entries
\* once the pool is complete.
C25_FinishedCountsRecords ==
    /\ finished = Len(results)
    /\ finished <= NumEntries
    /\ PoolComplete => finished = NumEntries

\* two entries are done, one with a failure row and one with a regular row
C25_Witness ==
    /\ PoolComplete
    /\ finished = 2
    /\ \E k \in 1..Len(results) : IsFailureRow(results[k])
    /\ \E k \in 1..Len(results) : ~IsFailureRow(results[k])

\* C29: a row that says "#1 Must upgrade to" names a version newer than the
\* current version of the package.
C29_MustUpgradeIsNewer ==
    \A i \in 1..NumEntries :
        (/\ HasRow(i)
         /\ SemverValid(CurrentClean(i))
         /\ IsMustUpgrade(RowOf(i).recommendedVersion))
        => SemverGt(RowOf(i).recommendedVersion.v, CurrentClean(i))

\* worker w waits for a registry call that never returns, holding entry i
Stalled(w, i) == wk[w].pc = "hung" /\ wk[w].entry = i

\* C26: a registry call that never returns stalls the worker that issued it
\* and no other: with two workers or more, every entry other than the one the
\* stalled worker holds eventually has its row in results, as long as the
\* calls of the other workers return.
C26_StallIsLocal ==
    (workerCount >= 2 /\ \E w \in Workers : wk[w].pc = "hung")
        ~> (\A j \in 1..NumEntries : HasRow(j) \/ \E w \in Workers : Stalled(w, j))

\* worker 0 is stalled on the first of three entries and worker 1 has
\* processed the other two
C26_Witness ==
    /\ Stalled(0, 1)
    /\ NumEntries = 3
    /\ HasRow(2)
    /\ HasRow(3)
    /\ wk[1].pc = "done"
    /\ ~HasRow(1)

====
